---------------------------- MODULE Spec2Model ----------------------------
(***************************************************************************)
(* Contacts REST backend: the per-user scoped contact repository           *)
(* (src/src/repository/contacts.py), its HTTP handlers                     *)
(* (src/src/routes/contacts.py), the user repository                       *)
(* (src/src/repository/users.py) and the auth lifecycle.                   *)
(*                                                                         *)
(* Conventions.  A Python "None" result of scalar_one_or_none() is the     *)
(* empty sequence and a found row is a one-element sequence; a nullable    *)
(* date is <<>> or <<year, month, day>>; a nullable refresh token is 0 or  *)
(* a positive token number.  Strings that the code pattern-matches are     *)
(* sequences of one-character strings.  The created_at / updated_at        *)
(* columns are not modelled: no modelled operation reads them.             *)
(***************************************************************************)
EXTENDS Integers, Sequences, FiniteSets, TLC

VARIABLES
    contacts,   \* the contacts table, rows in storage order
    nextId,     \* the next value of the autoincrement primary key
    creator,    \* history: creator[id] = the user whose create call persisted row id (0: none)
    last,       \* the last contact request: its arguments and its outcome
    users,      \* the users table, keyed by user id
    serial,     \* number of refresh tokens issued so far
    tokOwner,   \* history: tokOwner[t] = the user refresh token t was issued for
    stale,      \* history: the refresh tokens replaced by a successful refresh
    alast,      \* the last auth request: its arguments and its outcome
    sess        \* the requests in flight that are followed statement by statement

vars ==
    <<contacts, nextId, creator, last, users, serial, tokOwner, stale, alast, sess>>
contactVars == <<contacts, nextId, creator, last>>
authVars == <<users, serial, tokOwner, stale, alast>>
sessVars == <<sess>>

---------------------------------------------------------------------------
(* Bounds *)

\* total number of contact rows ever created (ids are 1..MaxId)
MaxId == 2
\* total number of refresh tokens ever issued
MaxSerial == 3

UserIds == {1, 2}
Ids == 1 .. MaxId

---------------------------------------------------------------------------
(* Program constants *)

\* Contact.user_id: mapped_column(..., default=1)
DefaultOwner == 1
HTTP_200_OK == 200
HTTP_201_CREATED == 201
HTTP_204_NO_CONTENT == 204
HTTP_401_UNAUTHORIZED == 401
HTTP_404_NOT_FOUND == 404
HTTP_500_INTERNAL == 500
\* Query(10, ge=10, ...): the smallest page size the handlers accept
LimitMin == 10
\* Query(7, ge=7): the default and smallest look-ahead of GET /contacts/birthday
DaysMin == 7

---------------------------------------------------------------------------
(* Strings *)

\* the upper-case letters and their lower-case forms
LowerTable ==
    ("A" :> "a") @@ ("B" :> "b") @@ ("C" :> "c") @@ ("D" :> "d") @@ ("E" :> "e") @@
    ("F" :> "f") @@ ("G" :> "g") @@ ("H" :> "h") @@ ("I" :> "i") @@ ("J" :> "j") @@
    ("K" :> "k") @@ ("L" :> "l") @@ ("M" :> "m") @@ ("N" :> "n") @@ ("O" :> "o") @@
    ("P" :> "p") @@ ("Q" :> "q") @@ ("R" :> "r") @@ ("S" :> "s") @@ ("T" :> "t") @@
    ("U" :> "u") @@ ("V" :> "v") @@ ("W" :> "w") @@ ("X" :> "x") @@ ("Y" :> "y") @@
    ("Z" :> "z")

\* lower-casing of one character, as ILIKE folds case
LowerChar(c) == IF c \in DOMAIN LowerTable THEN LowerTable[c] ELSE c

Lower(s) == [i \in 1 .. Len(s) |-> LowerChar(s[i])]

\* SQL LIKE: "%" matches any run of characters, "_" any one character (the
\* escape character does not occur in the texts used here)
RECURSIVE Like(_, _)
Like(s, pat) ==
    IF pat = <<>> THEN s = <<>>
    ELSE IF Head(pat) = "%"
         THEN Like(s, Tail(pat)) \/ (s # <<>> /\ Like(Tail(s), pat))
    ELSE IF Head(pat) = "_"
         THEN s # <<>> /\ Like(Tail(s), Tail(pat))
    ELSE s # <<>> /\ Head(s) = Head(pat) /\ Like(Tail(s), Tail(pat))

\* column.ilike(pattern): case-insensitive LIKE
ilike(s, pat) == Like(Lower(s), Lower(pat))

\* the f-string f"%{text}%"
Pattern(text) == <<"%">> \o text \o <<"%">>

---------------------------------------------------------------------------
(* Request bodies (ContactCreate / ContactUpdate) and search queries *)

NoDate == <<>>

Body1 ==
    [first_name |-> <<"J","o","h","n">>, last_name |-> <<"D","o","e">>,
     email |-> <<"j","o","h","n","@","x",".","c","o","m">>,
     phone_number |-> <<"1","2","3">>, birthday |-> NoDate]
Body2 ==
    [first_name |-> <<"J","a","n","e">>, last_name |-> <<"R","o","e">>,
     email |-> <<"j","a","n","e","@","x",".","c","o","m">>,
     phone_number |-> <<"4","5","6">>, birthday |-> <<1990, 2, 2>>]
Bodies == {Body1, Body2}
NoBody ==
    [first_name |-> <<>>, last_name |-> <<>>, email |-> <<>>,
     phone_number |-> <<>>, birthday |-> NoDate]

\* an optional query parameter: absent (Python None) or a text
Absent == [given |-> FALSE, text |-> <<>>]
Text(t) == [given |-> TRUE, text |-> t]
\* Python truthiness of an optional string: None and "" are falsy
Truthy(f) == f.given /\ f.text # <<>>

Q(fn, ln, em) == [first_name |-> fn, last_name |-> ln, email |-> em]
NoQuery == Q(Absent, Absent, Absent)
Queries ==
    { NoQuery,
      Q(Text(<<>>), Absent, Text(<<>>)),
      Q(Text(<<"J","o">>), Absent, Absent),
      Q(Text(<<"j">>), Text(<<"D","O","E">>), Absent),
      Q(Absent, Text(<<"o","e">>), Text(<<"J","A","N","E">>)),
      Q(Text(<<"J","_","n">>), Absent, Absent) }

\* (offset, limit) pairs requested: the handlers' default page, and a
\* one-row page past the first row
Pages == {<<0, LimitMin>>, <<1, 1>>}
\* date.today() at the time of a birthday request: two days before a month
\* ends, the first day of the next month, and late in that month
Todays == {<<2024, 1, 30>>, <<2024, 2, 1>>, <<2024, 2, 20>>}
NoToday == <<>>
\* the look-ahead a birthday request asks for
Days == {DaysMin}
\* where the storage layer fails during create
CreateFaults == {"none", "add", "commit", "refresh"}

---------------------------------------------------------------------------
(* Contact repository: src/src/repository/contacts.py *)

\* Contact(**body.model_dump(), user_id=...) with the generated primary key
Contact(id, body, uid) ==
    [id |-> id, first_name |-> body.first_name, last_name |-> body.last_name,
     email |-> body.email, phone_number |-> body.phone_number,
     birthday |-> body.birthday, user_id |-> uid]

\* .offset(offset).limit(limit) over a result in storage order
OffsetLimit(rows, offset, limit) ==
    LET n == Len(rows)
        lo == IF offset < n THEN offset ELSE n
        hi == IF lo + limit < n THEN lo + limit ELSE n
    IN  SubSeq(rows, lo + 1, hi)

create_default_owner(tbl, nid, body, uid, fault) ==
    LET contact == Contact(nid, body, DefaultOwner)
    IN  CASE fault \in {"add", "commit"} ->
               [db |-> tbl, nextId |-> nid, ret |-> <<>>, raised |-> HTTP_500_INTERNAL]
          [] fault = "refresh" ->
               [db |-> Append(tbl, contact), nextId |-> nid + 1, ret |-> <<>>,
                raised |-> HTTP_500_INTERNAL]
          [] OTHER ->
               [db |-> Append(tbl, contact), nextId |-> nid + 1, ret |-> <<contact>>,
                raised |-> 0]

\* create: add, commit, refresh; any exception becomes HTTPException(500).
\* A failure of add or commit persists nothing (and is taken not to consume
\* a primary key); a failure of refresh comes after the commit, so the row
\* is already stored.
create(tbl, nid, body, uid, fault) ==
    LET contact == Contact(nid, body, uid)
    IN  CASE fault \in {"add", "commit"} ->
               [db |-> tbl, nextId |-> nid, ret |-> <<>>, raised |-> HTTP_500_INTERNAL]
          [] fault = "refresh" ->
               [db |-> Append(tbl, contact), nextId |-> nid + 1, ret |-> <<>>,
                raised |-> HTTP_500_INTERNAL]
          [] OTHER ->
               [db |-> Append(tbl, contact), nextId |-> nid + 1, ret |-> <<contact>>,
                raised |-> 0]

\* select(Contact).filter_by(user_id=user.id).offset(offset).limit(limit)
get_contacts(tbl, limit, offset, uid) ==
    OffsetLimit(SelectSeq(tbl, LAMBDA r : r.user_id = uid), offset, limit)

get_contact_any_owner(tbl, id, uid) ==
    SelectSeq(tbl, LAMBDA r : r.id = id)

\* select(Contact).filter_by(id=contact_id, user_id=user.id); scalar_one_or_none()
get_contact(tbl, id, uid) ==
    SelectSeq(tbl, LAMBDA r : r.id = id /\ r.user_id = uid)

update_contact_stale_read(tbl, id, body, uid) ==
    LET found == SelectSeq(tbl, LAMBDA r : r.id = id /\ r.user_id = uid)
        upd(r) == [r EXCEPT !.last_name = r.first_name,
                            !.first_name = body.first_name,
                            !.email = body.email,
                            !.phone_number = body.phone_number,
                            !.birthday = body.birthday]
    IN  IF found = <<>>
        THEN [db |-> tbl, ret |-> <<>>]
        ELSE [db |-> [i \in 1 .. Len(tbl) |->
                         IF tbl[i].id = id /\ tbl[i].user_id = uid
                         THEN upd(tbl[i]) ELSE tbl[i]],
              ret |-> <<upd(found[1])>>]

\* an update that assigns the birthday only when the body carries one
update_contact_keep_birthday(tbl, id, body, uid) ==
    LET found == SelectSeq(tbl, LAMBDA r : r.id = id /\ r.user_id = uid)
        upd(r) == [r EXCEPT !.first_name = body.first_name,
                            !.last_name = body.last_name,
                            !.email = body.email,
                            !.phone_number = body.phone_number,
                            !.birthday = IF body.birthday = NoDate
                                         THEN r.birthday ELSE body.birthday]
    IN  IF found = <<>>
        THEN [db |-> tbl, ret |-> <<>>]
        ELSE [db |-> [i \in 1 .. Len(tbl) |->
                         IF tbl[i].id = id /\ tbl[i].user_id = uid
                         THEN upd(tbl[i]) ELSE tbl[i]],
              ret |-> <<upd(found[1])>>]

\* update_contact: select by id and owner; if found overwrite the five
\* fields, commit, refresh; return the row or None
update_contact(tbl, id, body, uid) ==
    LET found == SelectSeq(tbl, LAMBDA r : r.id = id /\ r.user_id = uid)
        upd(r) == [r EXCEPT !.first_name = body.first_name,
                            !.last_name = body.last_name,
                            !.email = body.email,
                            !.phone_number = body.phone_number,
                            !.birthday = body.birthday]
    IN  IF found = <<>>
        THEN [db |-> tbl, ret |-> <<>>]
        ELSE [db |-> [i \in 1 .. Len(tbl) |->
                         IF tbl[i].id = id /\ tbl[i].user_id = uid
                         THEN upd(tbl[i]) ELSE tbl[i]],
              ret |-> <<upd(found[1])>>]

\* a delete that returns the row it found without removing it
delete_contact_keep_row(tbl, id, uid) ==
    LET found == SelectSeq(tbl, LAMBDA r : r.id = id /\ r.user_id = uid)
    IN  [db |-> tbl, ret |-> found]

\* delete_contact: select by id and owner; if found delete, commit; return
\* the row as it was or None
delete_contact(tbl, id, uid) ==
    LET found == SelectSeq(tbl, LAMBDA r : r.id = id /\ r.user_id = uid)
    IN  IF found = <<>>
        THEN [db |-> tbl, ret |-> <<>>]
        ELSE [db |-> SelectSeq(tbl, LAMBDA r : ~(r.id = id /\ r.user_id = uid)),
              ret |-> found]

\* a birthday query that compares the day-of-month only
get_birthdays_any_month(days, today, tbl, uid) ==
    LET days1 == days + 1
        filter_day == today[3]
    IN  SelectSeq(tbl, LAMBDA r :
            /\ r.user_id = uid
            /\ r.birthday # NoDate
            /\ r.birthday[3] <= filter_day + days1)

\* get_birthdays: days = days + 1; the caller's rows whose birthday has the
\* month of date.today() and a day-of-month <= today's day + days.  A NULL
\* birthday makes both extract() comparisons NULL, so the row is left out.
get_birthdays(days, today, tbl, uid) ==
    LET days1 == days + 1
        filter_month == today[2]
        filter_day == today[3]
    IN  SelectSeq(tbl, LAMBDA r :
            /\ r.user_id = uid
            /\ r.birthday # NoDate
            /\ r.birthday[2] = filter_month
            /\ r.birthday[3] <= filter_day + days1)

\* the WHERE clause search builds: owner, then one ilike per truthy filter
SearchWhere(r, q, uid) ==
    /\ r.user_id = uid
    /\ Truthy(q.first_name) => ilike(r.first_name, Pattern(q.first_name.text))
    /\ Truthy(q.last_name) => ilike(r.last_name, Pattern(q.last_name.text))
    /\ Truthy(q.email) => ilike(r.email, Pattern(q.email.text))

search_propagates(tbl, q, skip, limit, uid, fault) ==
    IF fault
    THEN [ret |-> <<>>, raised |-> HTTP_500_INTERNAL]
    ELSE [ret |-> OffsetLimit(SelectSeq(tbl, LAMBDA r : SearchWhere(r, q, uid)),
                              skip, limit),
          raised |-> 0]

search_no_offset(tbl, q, skip, limit, uid, fault) ==
    IF fault
    THEN [ret |-> <<>>, raised |-> 0]
    ELSE [ret |-> OffsetLimit(SelectSeq(tbl, LAMBDA r : SearchWhere(r, q, uid)),
                              0, limit),
          raised |-> 0]

\* search: the filtered query with offset(skip).limit(limit); an exception
\* of db.execute is caught and [] returned
search(tbl, q, skip, limit, uid, fault) ==
    IF fault
    THEN [ret |-> <<>>, raised |-> 0]
    ELSE [ret |-> OffsetLimit(SelectSeq(tbl, LAMBDA r : SearchWhere(r, q, uid)),
                              skip, limit),
          raised |-> 0]

---------------------------------------------------------------------------
(* HTTP handlers: src/src/routes/contacts.py.  Each yields the status the  *)
(* client receives for a given repository outcome.                         *)

\* POST /contacts: any exception of the repository call, the repository's
\* own HTTPException(500) included, is caught and re-raised as 404
routes_create_contact(res) ==
    IF res.raised # 0 THEN HTTP_404_NOT_FOUND ELSE HTTP_201_CREATED

\* GET /contacts/{id}: None -> 404
routes_get_contact(ret) ==
    IF ret = <<>> THEN HTTP_404_NOT_FOUND ELSE HTTP_200_OK

\* PUT /contacts/{id}: None -> 404
routes_update_contact(ret) ==
    IF ret = <<>> THEN HTTP_404_NOT_FOUND ELSE HTTP_200_OK

\* DELETE /contacts/{id}: returns whatever the repository returned, 204
routes_delete_contact(ret) == HTTP_204_NO_CONTENT

\* GET /contacts/search: returns the repository's list
routes_serch(res) ==
    IF res.raised # 0 THEN res.raised ELSE HTTP_200_OK

---------------------------------------------------------------------------
(* Contact requests *)

Req(op, u) ==
    [op |-> op, user |-> u, id |-> 0, body |-> NoBody, q |-> NoQuery,
     skip |-> 0, limit |-> 0, days |-> 0, today |-> NoToday, fault |-> "none",
     ret |-> <<>>, raised |-> 0, status |-> 0]

CreateContact(u, b, f) ==
    /\ nextId <= MaxId
    /\ LET res == create(contacts, nextId, b, u, f)
       IN  /\ contacts' = res.db
           /\ nextId' = res.nextId
           /\ creator' = IF res.nextId # nextId
                         THEN [creator EXCEPT ![nextId] = u] ELSE creator
           /\ last' = [Req("create", u) EXCEPT
                         !.id = nextId, !.body = b, !.fault = f, !.ret = res.ret,
                         !.raised = res.raised,
                         !.status = routes_create_contact(res)]
    /\ UNCHANGED <<authVars, sessVars>>

GetContacts(u, limit, offset) ==
    /\ last' = [Req("list", u) EXCEPT
                  !.skip = offset, !.limit = limit,
                  !.ret = get_contacts(contacts, limit, offset, u),
                  !.status = HTTP_200_OK]
    /\ UNCHANGED <<contacts, nextId, creator>>
    /\ UNCHANGED <<authVars, sessVars>>

GetContact(u, id) ==
    /\ LET ret == get_contact(contacts, id, u)
       IN  last' = [Req("get", u) EXCEPT
                      !.id = id, !.ret = ret, !.status = routes_get_contact(ret)]
    /\ UNCHANGED <<contacts, nextId, creator>>
    /\ UNCHANGED <<authVars, sessVars>>

UpdateContact(u, id, b) ==
    /\ LET res == update_contact(contacts, id, b, u)
       IN  /\ contacts' = res.db
           /\ last' = [Req("update", u) EXCEPT
                         !.id = id, !.body = b, !.ret = res.ret,
                         !.status = routes_update_contact(res.ret)]
    /\ UNCHANGED <<nextId, creator>>
    /\ UNCHANGED <<authVars, sessVars>>

DeleteContact(u, id) ==
    /\ LET res == delete_contact(contacts, id, u)
       IN  /\ contacts' = res.db
           /\ last' = [Req("delete", u) EXCEPT
                         !.id = id, !.ret = res.ret,
                         !.status = routes_delete_contact(res.ret)]
    /\ UNCHANGED <<nextId, creator>>
    /\ UNCHANGED <<authVars, sessVars>>

\* GET /contacts/birthday: returns the repository's list
GetBirthdays(u, days, today) ==
    /\ last' = [Req("birthdays", u) EXCEPT
                  !.days = days, !.today = today,
                  !.ret = get_birthdays(days, today, contacts, u),
                  !.status = HTTP_200_OK]
    /\ UNCHANGED <<contacts, nextId, creator>>
    /\ UNCHANGED <<authVars, sessVars>>

Search(u, q, skip, limit, f) ==
    /\ LET res == search(contacts, q, skip, limit, u, f)
       IN  last' = [Req("search", u) EXCEPT
                      !.q = q, !.skip = skip, !.limit = limit,
                      !.fault = IF f THEN "execute" ELSE "none",
                      !.ret = res.ret, !.raised = res.raised,
                      !.status = routes_serch(res)]
    /\ UNCHANGED <<contacts, nextId, creator>>
    /\ UNCHANGED <<authVars, sessVars>>

---------------------------------------------------------------------------
(* Users table and user repository: src/src/database/models.py,            *)
(* src/src/repository/users.py.  A user's email is identified with its     *)
(* key in the table (the email column is unique).                          *)

NoToken == 0
NoAvatar == 0
\* the URL Gravatar(email).get_image() yields
GravatarUrl == 1
\* the URL an avatar update stores
UploadedUrl == 2
\* update_avatar_url(email, url: str | None, db)
AvatarUrls == {NoAvatar, UploadedUrl}
\* no row for this email
NoUser ==
    [registered |-> FALSE, password |-> 0, refresh_token |-> NoToken,
     avatar |-> NoAvatar, confirmed |-> FALSE]
\* a signed-up user whose email is confirmed
ConfirmedUser ==
    [registered |-> TRUE, password |-> 0, refresh_token |-> NoToken,
     avatar |-> NoAvatar, confirmed |-> TRUE]

\* a create_user that stores the new user as already confirmed
create_user_confirmed(tbl, u, password, gravatarOk) ==
    LET avatar == IF gravatarOk THEN GravatarUrl ELSE NoAvatar
        new_user == [registered |-> TRUE, password |-> password,
                     refresh_token |-> NoToken, avatar |-> avatar,
                     confirmed |-> TRUE]
    IN  [db |-> [tbl EXCEPT ![u] = new_user], ret |-> new_user]

\* a create_user whose Gravatar lookup is not inside a try: a failing
\* lookup ends the call before the row is added
create_user_gravatar_uncaught(tbl, u, password, gravatarOk) ==
    IF gravatarOk
    THEN LET new_user == [registered |-> TRUE, password |-> password,
                          refresh_token |-> NoToken, avatar |-> GravatarUrl,
                          confirmed |-> FALSE]
         IN  [db |-> [tbl EXCEPT ![u] = new_user], ret |-> new_user]
    ELSE [db |-> tbl, ret |-> NoUser]

\* create_user: avatar = None; try Gravatar(email).get_image(), an
\* exception leaves it None; User(**body, avatar=avatar) with the column
\* defaults refresh_token = None, confirmed = False; add, commit, refresh
create_user(tbl, u, password, gravatarOk) ==
    LET avatar == IF gravatarOk THEN GravatarUrl ELSE NoAvatar
        new_user == [registered |-> TRUE, password |-> password,
                     refresh_token |-> NoToken, avatar |-> avatar,
                     confirmed |-> FALSE]
    IN  [db |-> [tbl EXCEPT ![u] = new_user], ret |-> new_user]

\* an update_token that stores a token only when none is stored
update_token_keep_existing(tbl, u, token) ==
    [tbl EXCEPT ![u].refresh_token =
        IF tbl[u].refresh_token # NoToken THEN tbl[u].refresh_token ELSE token]

\* an update_token that skips the assignment when the token is None
update_token_ignores_none(tbl, u, token) ==
    IF token = NoToken THEN tbl ELSE [tbl EXCEPT ![u].refresh_token = token]

\* update_token: user.refresh_token = token; commit
update_token(tbl, u, token) == [tbl EXCEPT ![u].refresh_token = token]

\* confirmed_email: user = get_user_by_email(email); user.confirmed = True;
\* commit.  With no such user, user is None and the assignment raises
\* AttributeError before anything is committed.
confirmed_email(tbl, u) ==
    IF tbl[u].registered
    THEN [db |-> [tbl EXCEPT ![u].confirmed = TRUE], raised |-> FALSE]
    ELSE [db |-> tbl, raised |-> TRUE]

\* update_avatar_url: user = get_user_by_email(email); user.avatar = url;
\* commit; refresh; return user.  With no such user the assignment raises
\* AttributeError, as in confirmed_email.
update_avatar_url(tbl, u, url) ==
    IF tbl[u].registered
    THEN [db |-> [tbl EXCEPT ![u].avatar = url],
          ret |-> [tbl[u] EXCEPT !.avatar = url], raised |-> FALSE]
    ELSE [db |-> tbl, ret |-> NoUser, raised |-> TRUE]

\* what can go wrong while the confirmation mail is sent: nothing, the
\* creation of the email token, the connection to the mail server
MailFaults == {"none", "token", "connection"}

\* send_email: create the token, build the message, send it, all inside one
\* try; ConnectionErrors and any other Exception are caught and printed
send_email(fault) == [sent |-> fault = "none", raised |-> FALSE]

---------------------------------------------------------------------------
(* Auth service and auth handlers (src/services/auth.py,                   *)
(* src/routes/auth.py), modelled from the design document's section 4.3    *)
(* and from the responses tests/test_e2e_auth.py expects.                  *)

Passwords == {1, 2}
\* password hashing: one-way, never the identity
get_password_hash(pw) == pw + 100
verify_password(pw, hashed) == get_password_hash(pw) = hashed

HTTP_409_CONFLICT == 409
EmailNotConfirmed == "Email not confirmed"
InvalidPassword == "Invalid password"
InvalidRefreshToken == "Invalid refresh token"
AccountExists == "Account already exists"

Resp(tbl, status, detail, issued) ==
    [db |-> tbl, status |-> status, detail |-> detail, issued |-> issued]

\* signup: a known email is a conflict; otherwise the password is hashed
\* and the user row created (201)
signup(tbl, u, pw, gravatarOk) ==
    IF tbl[u].registered
    THEN Resp(tbl, HTTP_409_CONFLICT, AccountExists, NoToken)
    ELSE Resp(create_user(tbl, u, get_password_hash(pw), gravatarOk).db,
              HTTP_201_CREATED, "", NoToken)

login_password_first(tbl, u, pw, fresh) ==
    IF ~tbl[u].registered \/ ~verify_password(pw, tbl[u].password)
    THEN Resp(tbl, HTTP_401_UNAUTHORIZED, InvalidPassword, NoToken)
    ELSE IF ~tbl[u].confirmed
    THEN Resp(tbl, HTTP_401_UNAUTHORIZED, EmailNotConfirmed, NoToken)
    ELSE Resp(update_token(tbl, u, fresh), HTTP_200_OK, "", fresh)

\* login: an unknown email fails like a bad password; an unconfirmed user
\* fails with "Email not confirmed" whatever the password; a bad password
\* fails with "Invalid password"; otherwise a fresh refresh token is issued
\* and stored (200)
login(tbl, u, pw, fresh) ==
    IF ~tbl[u].registered
    THEN Resp(tbl, HTTP_401_UNAUTHORIZED, InvalidPassword, NoToken)
    ELSE IF ~tbl[u].confirmed
    THEN Resp(tbl, HTTP_401_UNAUTHORIZED, EmailNotConfirmed, NoToken)
    ELSE IF ~verify_password(pw, tbl[u].password)
    THEN Resp(tbl, HTTP_401_UNAUTHORIZED, InvalidPassword, NoToken)
    ELSE Resp(update_token(tbl, u, fresh), HTTP_200_OK, "", fresh)

\* refresh_token: token 0 stands for one that fails validation (bad
\* signature, expired): 401 and nothing changes.  A valid token names its
\* user; if it differs from the stored one the stored token is cleared and
\* the request fails (401); if it matches, a fresh token is issued and
\* stored (200)
refresh_token(tbl, owner, t, fresh) ==
    IF t = NoToken
    THEN Resp(tbl, HTTP_401_UNAUTHORIZED, InvalidRefreshToken, NoToken)
    ELSE IF tbl[owner[t]].refresh_token # t
    THEN Resp(update_token(tbl, owner[t], NoToken), HTTP_401_UNAUTHORIZED,
              InvalidRefreshToken, NoToken)
    ELSE Resp(update_token(tbl, owner[t], fresh), HTTP_200_OK, "", fresh)

\* logout: the stored refresh token is cleared
logout(tbl, u) == Resp(update_token(tbl, u, NoToken), HTTP_200_OK, "", NoToken)

NoAuthReq ==
    [op |-> "none", user |-> 0, password |-> 0, token |-> NoToken, status |-> 0,
     detail |-> "", issued |-> NoToken, gravatarOk |-> FALSE, mail |-> "none",
     sent |-> FALSE, url |-> NoAvatar, raised |-> FALSE]

AuthReq(op, u, res) ==
    [NoAuthReq EXCEPT !.op = op, !.user = u, !.status = res.status,
                      !.detail = res.detail, !.issued = res.issued]

\* the bookkeeping of a response that may carry a newly issued token
Issue(u, res) ==
    IF res.issued # NoToken
    THEN /\ serial' = res.issued
         /\ tokOwner' = Append(tokOwner, u)
    ELSE UNCHANGED <<serial, tokOwner>>

\* POST /api/auth/signup; after a created user the confirmation mail is
\* sent out of band
Signup(u, pw, gravatarOk, fault) ==
    /\ LET res == signup(users, u, pw, gravatarOk)
           created == res.status = HTTP_201_CREATED
           mail == IF created THEN send_email(fault)
                   ELSE [sent |-> FALSE, raised |-> FALSE]
       IN  /\ users' = res.db
           /\ alast' = [AuthReq("signup", u, res) EXCEPT
                          !.password = pw, !.gravatarOk = gravatarOk,
                          !.mail = IF created THEN fault ELSE "none",
                          !.sent = mail.sent, !.raised = mail.raised]
    /\ UNCHANGED <<serial, tokOwner, stale>>
    /\ UNCHANGED <<contactVars, sessVars>>

\* GET confirmed_email/{token}: the token was mailed at signup, so its user
\* exists
ConfirmEmail(u) ==
    /\ users[u].registered
    /\ LET res == confirmed_email(users, u)
       IN  /\ users' = res.db
           /\ alast' = AuthReq("confirm", u, Resp(res.db, HTTP_200_OK, "", NoToken))
    /\ UNCHANGED <<serial, tokOwner, stale>>
    /\ UNCHANGED <<contactVars, sessVars>>

\* the repository's confirmed_email called for any email, as
\* tests/test_unit_repository_users.py calls it
ConfirmedEmail(u) ==
    /\ LET res == confirmed_email(users, u)
       IN  /\ users' = res.db
           /\ alast' = [NoAuthReq EXCEPT !.op = "confirmed_email", !.user = u,
                                         !.raised = res.raised]
    /\ UNCHANGED <<serial, tokOwner, stale>>
    /\ UNCHANGED <<contactVars, sessVars>>

\* the avatar update of a logged-in user
UpdateAvatar(u, url) ==
    /\ users[u].registered /\ users[u].confirmed
    /\ LET res == update_avatar_url(users, u, url)
       IN  /\ users' = res.db
           /\ alast' = [NoAuthReq EXCEPT !.op = "avatar", !.user = u,
                                         !.url = url, !.raised = res.raised,
                                         !.status = HTTP_200_OK]
    /\ UNCHANGED <<serial, tokOwner, stale>>
    /\ UNCHANGED <<contactVars, sessVars>>

Login(u, pw) ==
    /\ LET res == login(users, u, pw, serial + 1)
       IN  /\ res.issued # NoToken => serial < MaxSerial
           /\ users' = res.db
           /\ alast' = [AuthReq("login", u, res) EXCEPT !.password = pw]
           /\ Issue(u, res)
    /\ UNCHANGED stale
    /\ UNCHANGED <<contactVars, sessVars>>

Refresh(t) ==
    /\ LET res == refresh_token(users, tokOwner, t, serial + 1)
           u == IF t = NoToken THEN 0 ELSE tokOwner[t]
       IN  /\ res.issued # NoToken => serial < MaxSerial
           /\ users' = res.db
           /\ alast' = [AuthReq("refresh", u, res) EXCEPT !.token = t]
           /\ Issue(u, res)
           /\ stale' = IF res.issued # NoToken THEN stale \cup {t} ELSE stale
    /\ UNCHANGED <<contactVars, sessVars>>

\* logout needs an access token, which only a login of a confirmed user
\* hands out
Logout(u) ==
    /\ users[u].registered /\ users[u].confirmed
    /\ LET res == logout(users, u)
       IN  /\ users' = res.db
           /\ alast' = AuthReq("logout", u, res)
    /\ UNCHANGED <<serial, tokOwner, stale>>
    /\ UNCHANGED <<contactVars, sessVars>>

---------------------------------------------------------------------------
(* Requests followed statement by statement.  Each request has its own     *)
(* AsyncSession (get_db); at every await (the select, the commit) another  *)
(* request may run.  A session keeps the row object it loaded; commit      *)
(* flushes the session's pending changes in one transaction.               *)

Sessions == {1, 2}
\* no request yet in this session
Idle ==
    [op |-> "none", pc |-> "idle", body |-> NoBody, loaded |-> <<>>,
     raised |-> FALSE]

\* the columns update_contact assigns
Columns == {"first_name", "last_name", "email", "phone_number", "birthday"}

\* the attributes whose assigned value differs from the value loaded: the
\* session's unit of work puts exactly these into the UPDATE's SET clause
Dirty(loaded, body) == {c \in Columns : body[c] # loaded[c]}

\* db.commit() after the five assignments of update_contact: with no dirty
\* attribute no statement is sent; otherwise UPDATE contacts SET <dirty
\* columns> WHERE id = <loaded id>, which raises (StaleDataError) when it
\* matches no row
commit_update(tbl, loaded, body) ==
    LET dirty == Dirty(loaded, body)
    IN  IF dirty = {}
        THEN [db |-> tbl, raised |-> FALSE]
        ELSE IF ~\E i \in 1 .. Len(tbl) : tbl[i].id = loaded.id
        THEN [db |-> tbl, raised |-> TRUE]
        ELSE [db |-> [i \in 1 .. Len(tbl) |->
                         IF tbl[i].id = loaded.id
                         THEN [c \in DOMAIN tbl[i] |->
                                  IF c \in dirty THEN body[c] ELSE tbl[i][c]]
                         ELSE tbl[i]],
              raised |-> FALSE]

\* db.delete(contact); db.commit(): DELETE FROM contacts WHERE id = <loaded
\* id>; a row that is already gone is not an error
commit_delete(tbl, loaded) ==
    [db |-> SelectSeq(tbl, LAMBDA r : r.id # loaded.id), raised |-> FALSE]

---------------------------------------------------------------------------
(* Specification of the contact requests, issued by confirmed users *)

InitContacts ==
    /\ contacts = <<>>
    /\ nextId = 1
    /\ creator = [i \in Ids |-> 0]
    /\ last = Req("none", 0)
    /\ users = [u \in UserIds |-> ConfirmedUser]
    /\ serial = 0
    /\ tokOwner = <<>>
    /\ stale = {}
    /\ alast = NoAuthReq
    /\ sess = [s \in Sessions |-> Idle]

NextContacts ==
    \/ \E u \in UserIds, b \in Bodies, f \in CreateFaults : CreateContact(u, b, f)
    \/ \E u \in UserIds, p \in Pages : GetContacts(u, p[2], p[1])
    \/ \E u \in UserIds, id \in Ids : GetContact(u, id)
    \/ \E u \in UserIds, id \in Ids, b \in Bodies : UpdateContact(u, id, b)
    \/ \E u \in UserIds, id \in Ids : DeleteContact(u, id)
    \/ \E u \in UserIds, n \in Days, t \in Todays : GetBirthdays(u, n, t)
    \/ \E u \in UserIds, q \in Queries, p \in Pages, f \in BOOLEAN :
          Search(u, q, p[1], p[2], f)

SpecContacts == InitContacts /\ [][NextContacts]_vars

---------------------------------------------------------------------------
(* Specification of the auth lifecycle, from an empty users table *)

InitAuth ==
    /\ contacts = <<>>
    /\ nextId = 1
    /\ creator = [i \in Ids |-> 0]
    /\ last = Req("none", 0)
    /\ users = [u \in UserIds |-> NoUser]
    /\ serial = 0
    /\ tokOwner = <<>>
    /\ stale = {}
    /\ alast = NoAuthReq
    /\ sess = [s \in Sessions |-> Idle]

NextAuth ==
    \/ \E u \in UserIds, pw \in Passwords, g \in BOOLEAN, f \in MailFaults :
          Signup(u, pw, g, f)
    \/ \E u \in UserIds : ConfirmEmail(u)
    \/ \E u \in UserIds : ConfirmedEmail(u)
    \/ \E u \in UserIds, pw \in Passwords : Login(u, pw)
    \/ \E t \in 0 .. serial : Refresh(t)
    \/ \E u \in UserIds : Logout(u)

SpecAuth == InitAuth /\ [][NextAuth]_vars

---------------------------------------------------------------------------
(* Specification of a user's whole lifecycle: the auth requests together   *)
(* with the avatar update and the contact requests of logged-in users      *)

\* get_current_user accepts the access token of a login, which only a
\* confirmed user gets
Authenticated(u) ==
    /\ users[u].confirmed
    /\ \E t \in 1 .. Len(tokOwner) : tokOwner[t] = u

\* the password every user of this specification signs up with
LifecyclePassword == CHOOSE pw \in Passwords : TRUE

\* the user who goes on to log in and use the service; the other users
\* only sign up and confirm
LifecycleUser == CHOOSE u \in UserIds : TRUE

NextLifecycle ==
    \/ \E u \in UserIds : Signup(u, LifecyclePassword, TRUE, "none")
    \/ \E u \in UserIds : ConfirmEmail(u)
    \/ \E pw \in Passwords : Login(LifecycleUser, pw)
    \/ \E t \in 0 .. serial : Refresh(t)
    \/ Logout(LifecycleUser)
    \/ Authenticated(LifecycleUser) /\ UpdateAvatar(LifecycleUser, UploadedUrl)
    \/ Authenticated(LifecycleUser) /\ CreateContact(LifecycleUser, Body1, "none")
    \/ \E id \in Ids :
          Authenticated(LifecycleUser) /\ UpdateContact(LifecycleUser, id, Body2)
    \/ \E id \in Ids :
          Authenticated(LifecycleUser) /\ DeleteContact(LifecycleUser, id)

SpecLifecycle == InitAuth /\ [][NextLifecycle]_vars

---------------------------------------------------------------------------
(* Specification of two interleaved requests of the owner on one stored    *)
(* contact: update_contact with a body, or delete_contact                  *)

\* the contact both requests address, and its owner
RaceId == CHOOSE id \in Ids : TRUE
RaceOwner == CHOOSE u \in UserIds : TRUE

\* bodies that agree with the stored row on some fields and differ on others
Body1Renamed == [Body1 EXCEPT !.first_name = Body2.first_name]
Body1Married == [Body1 EXCEPT !.last_name = Body2.last_name]
RaceBodies == {Body2, Body1Renamed, Body1Married}

\* the request arrives
StartUpdate(s, b) ==
    /\ sess[s].pc = "idle"
    /\ sess' = [sess EXCEPT ![s] =
                  [Idle EXCEPT !.op = "update", !.body = b, !.pc = "select"]]
    /\ UNCHANGED <<contactVars, authVars>>

StartDelete(s) ==
    /\ sess[s].pc = "idle"
    /\ sess' = [sess EXCEPT ![s] = [Idle EXCEPT !.op = "delete", !.pc = "select"]]
    /\ UNCHANGED <<contactVars, authVars>>

\* contact = (await db.execute(stmt)).scalar_one_or_none(); None ends the
\* request
SelectRow(s) ==
    /\ sess[s].pc = "select"
    /\ LET found == get_contact(contacts, RaceId, RaceOwner)
       IN  sess' = [sess EXCEPT ![s].loaded = found,
                                ![s].pc = IF found = <<>> THEN "done" ELSE "commit"]
    /\ UNCHANGED <<contactVars, authVars>>

\* the five assignments and await db.commit() of update_contact
CommitUpdate(s) ==
    /\ sess[s].pc = "commit" /\ sess[s].op = "update"
    /\ LET res == commit_update(contacts, sess[s].loaded[1], sess[s].body)
       IN  /\ contacts' = res.db
           /\ sess' = [sess EXCEPT ![s].pc = "done", ![s].raised = res.raised]
    /\ UNCHANGED <<nextId, creator, last, authVars>>

\* await db.delete(contact); await db.commit() of delete_contact
CommitDelete(s) ==
    /\ sess[s].pc = "commit" /\ sess[s].op = "delete"
    /\ LET res == commit_delete(contacts, sess[s].loaded[1])
       IN  /\ contacts' = res.db
           /\ sess' = [sess EXCEPT ![s].pc = "done", ![s].raised = res.raised]
    /\ UNCHANGED <<nextId, creator, last, authVars>>

InitRace ==
    /\ contacts = <<Contact(RaceId, Body1, RaceOwner)>>
    /\ nextId = RaceId + 1
    /\ creator = [i \in Ids |-> IF i = RaceId THEN RaceOwner ELSE 0]
    /\ last = Req("none", 0)
    /\ users = [u \in UserIds |-> ConfirmedUser]
    /\ serial = 0
    /\ tokOwner = <<>>
    /\ stale = {}
    /\ alast = NoAuthReq
    /\ sess = [s \in Sessions |-> Idle]

NextRace ==
    \/ \E s \in Sessions, b \in RaceBodies : StartUpdate(s, b)
    \/ \E s \in Sessions : StartDelete(s)
    \/ \E s \in Sessions : SelectRow(s)
    \/ \E s \in Sessions : CommitUpdate(s)
    \/ \E s \in Sessions : CommitDelete(s)

SpecRace == InitRace /\ [][NextRace]_vars

---------------------------------------------------------------------------
(* Properties of the contact requests (checked under SpecContacts) *)

\* user u owns a row with primary key id
Owned(tbl, id, u) == \E i \in 1 .. Len(tbl) : tbl[i].id = id /\ tbl[i].user_id = u

\* t occurs in s as a substring, letter case ignored
ContainsCI(s, t) ==
    \E k \in 0 .. Len(s) - Len(t) :
        \A j \in 1 .. Len(t) : LowerChar(s[k + j]) = LowerChar(t[j])

\* no truthy filter: every filter is absent or the empty string
NoFilter(q) == ~Truthy(q.first_name) /\ ~Truthy(q.last_name) /\ ~Truthy(q.email)

\* C1 (cross-tenant isolation): a get, update or delete request for an id
\* the caller owns no row of returns None and leaves the whole table, the
\* other owner's row with that id included, as it was.
C1_CrossTenantIsolation ==
    [][ (last'.op \in {"get", "update", "delete"}
           /\ ~Owned(contacts, last'.id, last'.user))
        => (last'.ret = <<>> /\ contacts' = contacts) ]_vars

\* C1 witness: a delete by a user of an id stored under the other user
\* returned None and the other user's row is still there.
C1_Witness ==
    /\ last.op = "delete"
    /\ last.ret = <<>>
    /\ \E i \in 1 .. Len(contacts) :
          contacts[i].id = last.id /\ contacts[i].user_id # last.user

\* C2 (owner of a created contact): a successful create returns and stores
\* a row whose user_id is the caller's id; every stored row belongs to the
\* user who created it, and a user's list holds only rows that user created.
C2_CreateOwner ==
    /\ (last.op = "create" /\ last.ret # <<>>) =>
          /\ last.ret[1].user_id = last.user
          /\ contacts # <<>>
          /\ contacts[Len(contacts)] = last.ret[1]
    /\ \A i \in 1 .. Len(contacts) : contacts[i].user_id = creator[contacts[i].id]
    /\ \A u \in UserIds :
          LET listed == get_contacts(contacts, MaxId, 0, u)
          IN  /\ \A i \in 1 .. Len(listed) : creator[listed[i].id] = u
              /\ \A i \in 1 .. Len(contacts) :
                    creator[contacts[i].id] = u =>
                       \E j \in 1 .. Len(listed) : listed[j] = contacts[i]

\* C2 witness: a user other than the default owner has just created a
\* contact while the other user's contact is stored too.
C2_Witness ==
    /\ last.op = "create"
    /\ last.ret # <<>>
    /\ last.user # DefaultOwner
    /\ \E i \in 1 .. Len(contacts) : contacts[i].user_id = DefaultOwner

\* C5 (update is idempotent): in the state a successful update leaves,
\* applying update_contact again with the same id, body and caller returns
\* the same record and leaves every row as it is.
C5_UpdateIdempotent ==
    (last.op = "update" /\ last.ret # <<>>) =>
        LET again == update_contact(contacts, last.id, last.body, last.user)
        IN  /\ again.db = contacts
            /\ again.ret = last.ret
            /\ again.ret[1] = Contact(last.id, last.body, last.user)

\* C5 witness: an update of an owned contact has been applied while another
\* row is stored.
C5_Witness ==
    /\ last.op = "update"
    /\ last.ret # <<>>
    /\ Len(contacts) = 2
    /\ last.body.birthday # NoDate

\* C6 (search without filters is list): with every filter absent or empty
\* and the query executing, search returns exactly what get_contacts returns
\* for the same user, limit and offset = skip.
C6_SearchNoFilterIsList ==
    /\ (last.op = "search" /\ NoFilter(last.q) /\ last.fault = "none") =>
          last.ret = get_contacts(contacts, last.limit, last.skip, last.user)
    /\ \A u \in UserIds, q \in {x \in Queries : NoFilter(x)},
          s \in 0 .. MaxId, l \in (0 .. MaxId) \cup {LimitMin} :
          search(contacts, q, s, l, u, FALSE).ret = get_contacts(contacts, l, s, u)

\* C6 witness: a search with empty-string filters and skip 1, limit 1
\* returned the caller's second contact.
C6_Witness ==
    /\ last.op = "search"
    /\ last.fault = "none"
    /\ last.q.first_name = Text(<<>>)
    /\ last.skip = 1
    /\ last.ret # <<>>

\* C7 (search filters are conjunctive, owner-scoped, case-insensitive
\* substring matches): every row a search returns belongs to the caller and
\* each supplied filter text occurs in the corresponding field as a
\* substring, letter case ignored.
C7_SearchSubstring ==
    (last.op = "search" /\ last.fault = "none") =>
        \A i \in 1 .. Len(last.ret) :
            LET r == last.ret[i]
            IN  /\ r.user_id = last.user
                /\ last.q.first_name.given =>
                      ContainsCI(r.first_name, last.q.first_name.text)
                /\ last.q.last_name.given =>
                      ContainsCI(r.last_name, last.q.last_name.text)
                /\ last.q.email.given => ContainsCI(r.email, last.q.email.text)

\* C8 (not-found is surfaced as 404): for get, update and delete on
\* /contacts/{id}, a None from the repository reaches the client as 404, and
\* a 2xx status is returned only when an owned contact was found.
C8_NotFoundIs404 ==
    last.op \in {"get", "update", "delete"} =>
        /\ last.ret = <<>> => last.status = HTTP_404_NOT_FOUND
        /\ last.status \in 200 .. 299 => last.ret # <<>>

\* C9 (storage failure on create is a 500): when add, commit or refresh
\* raises, POST /contacts answers with a 5xx status and no contact has been
\* added.
C9_CreateFailureIs500 ==
    (last.op = "create" /\ last.fault # "none") =>
        /\ last.status \in 500 .. 599
        /\ ~ \E i \in 1 .. Len(contacts) : contacts[i].id = last.id

\* C10 (search falls back to the empty list): when db.execute raises, search
\* returns [] without raising, the handler answers 200, and the stored
\* contacts are unchanged.
C10_SearchFallback ==
    [][ (last'.op = "search" /\ last'.fault = "execute")
        => /\ last'.ret = <<>>
           /\ last'.raised = 0
           /\ last'.status = HTTP_200_OK
           /\ contacts' = contacts ]_vars

\* C10 witness: an unfiltered search of a user who has contacts failed in
\* db.execute and returned the empty list.
C10_Witness ==
    /\ last.op = "search"
    /\ last.fault = "execute"
    /\ last.q = NoQuery
    /\ last.ret = <<>>
    /\ get_contacts(contacts, LimitMin, 0, last.user) # <<>>

\* row r is one of the rows of the list a request returned
Returned(ret, r) == \E i \in 1 .. Len(ret) : ret[i] = r

DaysInMonth(y, m) ==
    IF m = 2
    THEN IF y % 4 = 0 /\ (y % 100 # 0 \/ y % 400 = 0) THEN 29 ELSE 28
    ELSE IF m \in {4, 6, 9, 11} THEN 30 ELSE 31

NextDay(d) ==
    IF d[3] < DaysInMonth(d[1], d[2]) THEN <<d[1], d[2], d[3] + 1>>
    ELSE IF d[2] < 12 THEN <<d[1], d[2] + 1, 1>>
    ELSE <<d[1] + 1, 1, 1>>

RECURSIVE AddDays(_, _)
AddDays(d, n) == IF n = 0 THEN d ELSE AddDays(NextDay(d), n - 1)

\* the month and day of birthday b fall on one of today .. today + days
BirthdayWithin(b, today, days) ==
    \E k \in 0 .. days :
        LET t == AddDays(today, k) IN t[2] = b[2] /\ t[3] = b[3]

\* C17 (birthdays within the next days): a birthday request returns exactly
\* the caller's rows whose birthday (month and day) falls on a date between
\* today and today + days.
C17_BirthdaysWithinDays ==
    last.op = "birthdays" =>
       /\ \A i \in 1 .. Len(last.ret) : last.ret[i].user_id = last.user
       /\ \A j \in 1 .. Len(contacts) :
             LET r == contacts[j]
             IN  r.user_id = last.user =>
                    (Returned(last.ret, r) <=>
                        /\ r.birthday # NoDate
                        /\ BirthdayWithin(r.birthday, last.today, last.days))

\* the rows of tbl with an id other than id, in table order
Others(tbl, id) == SelectSeq(tbl, LAMBDA r : r.id # id)

\* the position of the row with this id in tbl, 0 when there is none
IndexOf(tbl, id) ==
    IF \E i \in 1 .. Len(tbl) : tbl[i].id = id
    THEN CHOOSE i \in 1 .. Len(tbl) : tbl[i].id = id
    ELSE 0

\* C15 (frame of update): an update of a contact the caller owns gives the
\* row's first_name, last_name, email, phone_number and birthday the
\* body's values (a body without birthday makes it null), keeps the row's
\* id and user_id and its place in the table, returns the row, and leaves
\* every other row of every user as it was; an update that finds no row
\* leaves the whole table as it was.
C15_UpdateFrame ==
    [][ last'.op = "update" =>
          IF Owned(contacts, last'.id, last'.user)
          THEN LET k == IndexOf(contacts, last'.id)
               IN  /\ Len(contacts') = Len(contacts)
                   /\ contacts'[k].first_name = last'.body.first_name
                   /\ contacts'[k].last_name = last'.body.last_name
                   /\ contacts'[k].email = last'.body.email
                   /\ contacts'[k].phone_number = last'.body.phone_number
                   /\ contacts'[k].birthday = last'.body.birthday
                   /\ contacts'[k].id = contacts[k].id
                   /\ contacts'[k].user_id = contacts[k].user_id
                   /\ last'.ret = <<contacts'[k]>>
                   /\ \A i \in 1 .. Len(contacts) :
                         i # k => contacts'[i] = contacts[i]
          ELSE contacts' = contacts /\ last'.ret = <<>>
      ]_vars

\* C15 witness: an update with a body without birthday succeeded on a table
\* of two rows, one of them of the other user, and the updated row's
\* birthday is null.
C15_Witness ==
    /\ last.op = "update"
    /\ last.ret # <<>>
    /\ last.body.birthday = NoDate
    /\ last.ret[1].birthday = NoDate
    /\ Len(contacts) = 2
    /\ \E i \in 1 .. Len(contacts) : contacts[i].user_id # last.user

\* C16 (delete removes exactly one row): a delete of a contact the caller
\* owns returns the row as it was and leaves the table without that row
\* and with every other row unchanged; from then on a get, an update with
\* any body and another delete of that id by the same caller find nothing,
\* the row is in no page of the caller's list or search, and an id that
\* was handed out and is gone never comes back.
C16_DeleteRemovesRow ==
    [][ /\ (last'.op = "delete" /\ Owned(contacts, last'.id, last'.user)) =>
              LET k == IndexOf(contacts, last'.id)
                  u == last'.user
                  id == last'.id
              IN  /\ last'.ret = <<contacts[k]>>
                  /\ contacts' = Others(contacts, id)
                  /\ Len(contacts') = Len(contacts) - 1
                  /\ get_contact(contacts', id, u) = <<>>
                  /\ \A b \in Bodies :
                        /\ update_contact(contacts', id, b, u).ret = <<>>
                        /\ update_contact(contacts', id, b, u).db = contacts'
                  /\ delete_contact(contacts', id, u).ret = <<>>
                  /\ ~Returned(get_contacts(contacts', MaxId, 0, u), contacts[k])
                  /\ \A q \in Queries :
                        ~Returned(search(contacts', q, 0, MaxId, u, FALSE).ret,
                                  contacts[k])
        /\ \A id \in Ids :
              (id < nextId /\ IndexOf(contacts, id) = 0) =>
                  IndexOf(contacts', id) = 0
      ]_vars

\* C16 witness: a delete returned the row it removed, the id is gone, and
\* another row is still stored.
C16_Witness ==
    /\ last.op = "delete"
    /\ last.ret # <<>>
    /\ IndexOf(contacts, last.id) = 0
    /\ contacts # <<>>

---------------------------------------------------------------------------
(* Properties of the auth lifecycle (checked under SpecAuth) *)

\* signed up, email not yet confirmed
PendingConfirmation(u) == users[u].registered /\ ~users[u].confirmed

\* C3 (login before confirmation): a login attempt of a user in state
\* PendingConfirmation fails with 401 and the detail "Email not confirmed",
\* for a correct and for a wrong password alike; it issues no token, and a
\* pending user never has a stored refresh token.
C3_LoginBeforeConfirmation ==
    /\ (alast.op = "login" /\ PendingConfirmation(alast.user)) =>
          /\ alast.status = HTTP_401_UNAUTHORIZED
          /\ alast.detail = EmailNotConfirmed
          /\ alast.issued = NoToken
    /\ \A u \in UserIds :
          PendingConfirmation(u) =>
             /\ users[u].refresh_token = NoToken
             /\ \A t \in 1 .. serial : tokOwner[t] # u

\* C3 witness: a pending user has just tried to log in with a wrong
\* password.
C3_Witness ==
    /\ alast.op = "login"
    /\ PendingConfirmation(alast.user)
    /\ ~verify_password(alast.password, users[alast.user].password)

\* C4 (refresh rotation): a refresh succeeds only with the token stored for
\* its user at that moment; a token already replaced by a successful refresh
\* is rejected; a successful refresh stores a token never issued before in
\* place of the presented one.
C4_RefreshRotation ==
    [][ alast'.op = "refresh" =>
          /\ alast'.status \in {HTTP_200_OK, HTTP_401_UNAUTHORIZED}
          /\ alast'.token \in stale => alast'.status = HTTP_401_UNAUTHORIZED
          /\ alast'.status = HTTP_200_OK =>
                /\ alast'.token # NoToken
                /\ users[alast'.user].refresh_token = alast'.token
                /\ alast'.issued \notin 0 .. serial
                /\ users'[alast'.user].refresh_token = alast'.issued
                /\ alast'.token \in stale'
          /\ alast'.status = HTTP_401_UNAUTHORIZED =>
                /\ alast'.issued = NoToken
                /\ \A u \in UserIds : users'[u].refresh_token \in
                                         {users[u].refresh_token, NoToken} ]_vars

\* C4 witness: a token that an earlier refresh had replaced was presented
\* again and rejected, after its user had logged in anew.
C4_Witness ==
    /\ alast.op = "refresh"
    /\ alast.token \in stale
    /\ alast.status = HTTP_401_UNAUTHORIZED
    /\ \E t \in 1 .. serial :
          t > alast.token /\ tokOwner[t] = alast.user /\ t \notin stale

\* C12 (confirmation of an unknown email): confirmed_email sets confirmed
\* for the user with that email and changes nothing else; for an email
\* with no user it raises no error and changes no user record.
C12_ConfirmUnknownIsSilent ==
    [][ alast'.op = "confirmed_email" =>
          /\ ~alast'.raised
          /\ IF users[alast'.user].registered
             THEN users' = [users EXCEPT ![alast'.user].confirmed = TRUE]
             ELSE users' = users
      ]_vars

\* C13 (signup survives its side effects): a signup of an unknown email is
\* answered 201 and create_user stores and returns the new row whether or
\* not the avatar lookup succeeds (avatar is the resolved URL on success
\* and unset on failure) without touching another user; send_email raises
\* nothing whether the token, the connection or nothing fails, and the
\* mail goes out exactly when nothing fails.
C13_SignupSurvivesSideEffects ==
    /\ (alast.op = "signup" /\ alast.status = HTTP_201_CREATED) =>
          /\ users[alast.user].registered
          /\ users[alast.user].avatar =
                IF alast.gravatarOk THEN GravatarUrl ELSE NoAvatar
          /\ ~alast.raised
          /\ alast.sent <=> alast.mail = "none"
    /\ \A u \in UserIds : ~users[u].registered =>
          \A pw \in Passwords, g \in BOOLEAN :
              LET res == create_user(users, u, get_password_hash(pw), g)
              IN  /\ signup(users, u, pw, g).status = HTTP_201_CREATED
                  /\ res.ret.registered
                  /\ res.db[u] = res.ret
                  /\ res.ret.avatar = IF g THEN GravatarUrl ELSE NoAvatar
                  /\ \A v \in UserIds \ {u} : res.db[v] = users[v]
    /\ \A f \in MailFaults : ~send_email(f).raised

\* C13 witness: a signup whose avatar lookup failed and whose mail server
\* could not be reached created the user, without avatar.
C13_Witness ==
    /\ alast.op = "signup"
    /\ alast.status = HTTP_201_CREATED
    /\ ~alast.gravatarOk
    /\ alast.mail = "connection"
    /\ users[alast.user].registered
    /\ users[alast.user].avatar = NoAvatar

\* C14 (logout revokes refresh): a logout clears the user's stored refresh
\* token and changes no other field of any user; while no token is stored
\* for a user, which lasts until that user's next login, a refresh with any
\* token ever issued to the user is answered 401 and issues nothing, and a
\* login with the user's password is answered 200.
C14_LogoutRevokesRefresh ==
    [][ /\ alast'.op = "logout" =>
              users' = [users EXCEPT ![alast'.user].refresh_token = NoToken]
        /\ \A u \in UserIds :
              (users'[u].confirmed /\ users'[u].refresh_token = NoToken) =>
                 /\ \A t \in 1 .. serial' : tokOwner'[t] = u =>
                       LET res == refresh_token(users', tokOwner', t, serial' + 1)
                       IN  /\ res.status = HTTP_401_UNAUTHORIZED
                           /\ res.issued = NoToken
                 /\ \E pw \in Passwords :
                       login(users', u, pw, serial' + 1).status = HTTP_200_OK
        /\ \A u \in UserIds :
              (users[u].refresh_token = NoToken /\ users'[u].refresh_token # NoToken)
                 => (alast'.op = "login" /\ alast'.user = u)
      ]_vars

\* C14 witness: a user who was issued refresh tokens has logged out; no
\* token is stored and the user is still confirmed.
C14_Witness ==
    /\ alast.op = "logout"
    /\ users[alast.user].refresh_token = NoToken
    /\ users[alast.user].confirmed
    /\ \E t \in 1 .. serial : tokOwner[t] = alast.user

\* C19 (the auth state only moves forward): a user row is never removed
\* and a confirmed user stays confirmed through every signup, confirmation,
\* login, refresh, logout, avatar update and contact request; a row appears
\* only by that user's signup, unconfirmed; confirmed becomes true only by
\* that user's email confirmation; and a login is answered 200 only for a
\* user who was confirmed before it.
C19_AuthStateMovesForward ==
    [][ \A u \in UserIds :
          /\ users[u].registered => users'[u].registered
          /\ users[u].confirmed => users'[u].confirmed
          /\ (~users[u].registered /\ users'[u].registered) =>
                /\ ~users'[u].confirmed
                /\ alast'.op = "signup" /\ alast'.user = u
          /\ (~users[u].confirmed /\ users'[u].confirmed) =>
                /\ users[u].registered
                /\ alast'.op = "confirm" /\ alast'.user = u
          /\ (alast'.op = "login" /\ alast'.user = u
                 /\ alast'.status = HTTP_200_OK) => users[u].confirmed
      ]_vars

\* C19 witness: a confirmed user has logged in, stored a contact, changed
\* the avatar and logged out, and is still confirmed.
C19_Witness ==
    \E u \in UserIds :
        /\ users[u].confirmed
        /\ users[u].avatar = UploadedUrl
        /\ users[u].refresh_token = NoToken
        /\ \E t \in 1 .. serial : tokOwner[t] = u
        /\ \E i \in 1 .. Len(contacts) : contacts[i].user_id = u

\* the five body fields of a stored row
Fields(r) == [c \in Columns |-> r[c]]

\* the row with the raced id is stored
RaceRowExists == \E i \in 1 .. Len(contacts) : contacts[i].id = RaceId

\* C18 (interleaved requests, no locking): when both requests have
\* finished, two updates with different bodies leave the contact with the
\* five fields of one of the two bodies, never a mixture; an update and a
\* delete leave no contact.
C18_InterleavedRequests ==
    (\A s \in Sessions : sess[s].pc = "done") =>
       /\ ((\A s \in Sessions : sess[s].op = "update")
              /\ sess[1].body # sess[2].body) =>
             /\ RaceRowExists
             /\ \A i \in 1 .. Len(contacts) : contacts[i].id = RaceId =>
                   \E s \in Sessions : Fields(contacts[i]) = sess[s].body
       /\ (\E s, t \in Sessions :
              sess[s].op = "update" /\ sess[t].op = "delete") => ~RaceRowExists

\* the part of C18 about an update interleaved with a delete
UpdateDeleteLeavesNoRow ==
    ((\A s \in Sessions : sess[s].pc = "done")
        /\ \E s, t \in Sessions : sess[s].op = "update" /\ sess[t].op = "delete")
    => ~RaceRowExists

===========================================================================
